---- MODULE Spec2Model ----
(***************************************************************************)
(* Model of Core/Backtester.py: Backtester.__init__, run,                  *)
(* calculate_composition_matrix, calculate_transaction_costs,              *)
(* calculate_slippage_costs, evaluate_trade and calculate_returns.         *)
(*                                                                         *)
(* Floats are modelled as extended rationals <<n, d>> in lowest terms with *)
(* d >= 0: <<n, 1>>.. finite, <<1, 0>> = +inf, <<-1, 0>> = -inf and        *)
(* <<0, 0>> = NaN.  Arithmetic is exact: IEEE rounding is not modelled,    *)
(* the IEEE special values (division by zero, inf, NaN) are.               *)
(*                                                                         *)
(* A pandas Series is [index |-> <<labels>>, vals |-> <<values>>], a       *)
(* DataFrame is [index |-> <<labels>>, ncols |-> A, vals |-> <<rows>>]     *)
(* with each row a sequence of A values; columns are named by position.    *)
(* Dates are the integers 1..N; iloc positions are 0-based in the code     *)
(* and kept 0-based in special_start and date_index.                       *)
(***************************************************************************)
EXTENDS Integers, Sequences, FiniteSets, TLC

VARIABLES
    data,               \* self.data: the price table (DataFrame of naturals)
    all_dates,          \* self.calendar.all_dates (a set of dates)
    rebalancing_dates,  \* self.calendar.rebalancing_dates (a set of dates)
    special_start,      \* self.special_start
    multi_assets,       \* self.multi_assets
    transaction_cost,   \* self.transaction_cost
    slippage,           \* self.slippage
    strategy,           \* the strategy object handed to run()
    pc,                 \* position of the call: "new", "constructed", "build",
                        \* "returns", "evaluate", "result", "done", "error"
    trading_dates,      \* calculate_composition_matrix: trading_dates
    composition_matrix, \* calculate_composition_matrix: composition_matrix
    date_index,         \* calculate_composition_matrix: loop variable
    asset,              \* calculate_composition_matrix: loop variable (column)
    current_position,   \* calculate_composition_matrix: accumulator
    calls,              \* the get_position calls made so far, in order
    out,                \* calculate_returns: locals at its return statement
    result_trade,       \* evaluate_trade's return value
    result,             \* the Result returned by run()
    error               \* the exception that ended the call, or "none"

vars == <<data, all_dates, rebalancing_dates, special_start, multi_assets,
          transaction_cost, slippage, strategy, pc, trading_dates,
          composition_matrix, date_index, asset, current_position, calls,
          out, result_trade, result, error>>

inputs == <<data, all_dates, rebalancing_dates, special_start, multi_assets,
            transaction_cost, slippage, strategy>>

----------------------------------------------------------------------------
(* Bounds of the checked instances.                                        *)

\* largest number of rows of a generated price table
MaxRows == 3

----------------------------------------------------------------------------
(* float64 arithmetic on extended rationals.                               *)

NaN == <<0, 0>>
PosInf == <<1, 0>>
NegInf == <<-1, 0>>

AbsInt(n) == IF n < 0 THEN -n ELSE n

SignInt(n) == IF n < 0 THEN -1 ELSE IF n > 0 THEN 1 ELSE 0

RECURSIVE Gcd(_, _)
Gcd(a, b) == IF b = 0 THEN a ELSE Gcd(b, a % b)

\* the float n/d, d any integer
Norm(n, d) ==
    IF d = 0 THEN <<SignInt(n), 0>>
    ELSE LET g == Gcd(AbsInt(n), AbsInt(d))
             s == IF d < 0 THEN -1 ELSE 1
         IN  <<(s * n) \div g, AbsInt(d) \div g>>

F(n) == <<n, 1>>

IsNaN(x) == x = NaN
IsInf(x) == x[2] = 0 /\ x[1] # 0
IsFinite(x) == x[2] > 0

FNeg(x) == <<-x[1], x[2]>>
FAbs(x) == <<AbsInt(x[1]), x[2]>>

FAdd(x, y) ==
    IF IsNaN(x) \/ IsNaN(y) THEN NaN
    ELSE IF IsInf(x) /\ IsInf(y) THEN (IF x = y THEN x ELSE NaN)
    ELSE IF IsInf(x) THEN x
    ELSE IF IsInf(y) THEN y
    ELSE Norm(x[1] * y[2] + y[1] * x[2], x[2] * y[2])

FSub(x, y) == FAdd(x, FNeg(y))

\* inf * 0 = NaN, NaN * x = NaN fall out of 0/0
FMul(x, y) == Norm(x[1] * y[1], x[2] * y[2])

\* 1 / y: 1 / 0 is +inf, 1 / inf is 0
FRecip(y) == IF y[1] < 0 THEN <<-y[2], -y[1]>> ELSE <<y[2], y[1]>>

\* x / y: x / 0 is +-inf, 0 / 0 and inf / inf are NaN
FDiv(x, y) == FMul(x, FRecip(y))

\* ==, < and > of two floats: every comparison with NaN is False
FEq(x, y) == ~IsNaN(x) /\ ~IsNaN(y) /\ x = y
FLt(x, y) ==
    /\ ~IsNaN(x) /\ ~IsNaN(y) /\ x # y
    /\ IF IsInf(x) THEN x = NegInf
       ELSE IF IsInf(y) THEN y = PosInf
       ELSE x[1] * y[2] < y[1] * x[2]
FGt(x, y) == FLt(y, x)

\* Series.fillna(0) on one cell
FillNa(x) == IF IsNaN(x) THEN F(0) ELSE x

\* sum(axis=1) over one row: skipna=True, so NaN cells are left out and an
\* all-NaN row sums to 0
RECURSIVE SumSkipNa(_)
SumSkipNa(row) ==
    IF row = <<>> THEN F(0)
    ELSE LET h == Head(row)
         IN  IF IsNaN(h) THEN SumSkipNa(Tail(row))
             ELSE FAdd(h, SumSkipNa(Tail(row)))

----------------------------------------------------------------------------
(* pandas index and frame helpers.                                         *)

Range(s) == {s[i] : i \in DOMAIN s}

Min(S) == CHOOSE x \in S : \A y \in S : x <= y

\* a set of dates as a sorted index
RECURSIVE SortedSeq(_)
SortedSeq(S) ==
    IF S = {} THEN <<>>
    ELSE LET m == Min(S) IN <<m>> \o SortedSeq(S \ {m})

\* position (1-based) of label d in index idx, 0 when absent
Pos(idx, d) ==
    IF d \in Range(idx) THEN CHOOSE i \in DOMAIN idx : idx[i] = d ELSE 0

NaNRow(A) == [j \in 1..A |-> NaN]

\* the row of frame df at label d, a NaN row when d is not in its index
RowAt(df, d) ==
    IF Pos(df.index, d) = 0 THEN NaNRow(df.ncols) ELSE df.vals[Pos(df.index, d)]

\* the value of series s at label d, NaN when d is not in its index
ValAt(s, d) == IF Pos(s.index, d) = 0 THEN NaN ELSE s.vals[Pos(s.index, d)]

\* obj.iloc[k:] of a frame or a series (k a 0-based position)
ILocFrom(obj, k) ==
    [obj EXCEPT !.index = SubSeq(obj.index, k + 1, Len(obj.index)),
                !.vals = SubSeq(obj.vals, k + 1, Len(obj.vals))]

\* self.data.loc[:current_date]: the rows labelled up to and including it
LocUpTo(df, current_date) ==
    LET keep == {i \in DOMAIN df.index : df.index[i] <= current_date}
    IN  [df EXCEPT !.index = SubSeq(df.index, 1, Cardinality(keep)),
                   !.vals = SubSeq(df.vals, 1, Cardinality(keep))]

\* df[asset]: one column as a series
Column(df, j) ==
    [index |-> df.index, vals |-> [i \in DOMAIN df.vals |-> df.vals[i][j]]]

----------------------------------------------------------------------------
(* The pandas operations calculate_returns is made of.                     *)

\* df.fillna(0)
FillNaFrame(df) ==
    [df EXCEPT !.vals = [i \in DOMAIN df.vals |->
                            [j \in 1..df.ncols |-> FillNa(df.vals[i][j])]]]

\* df.abs()
AbsFrame(df) ==
    [df EXCEPT !.vals = [i \in DOMAIN df.vals |->
                            [j \in 1..df.ncols |-> FAbs(df.vals[i][j])]]]

\* df.pct_change(): row 0 is NaN, row t is p[t] / p[t-1] - 1
PctChange(df) ==
    [df EXCEPT !.vals = [i \in DOMAIN df.vals |->
        IF i = 1 THEN NaNRow(df.ncols)
        ELSE [j \in 1..df.ncols |->
                 FSub(FDiv(df.vals[i][j], df.vals[i - 1][j]), F(1))]]]

\* df.shift(1): row t holds row t-1, row 0 is NaN
Shift1(df) ==
    [df EXCEPT !.vals = [i \in DOMAIN df.vals |->
        IF i = 1 THEN NaNRow(df.ncols) ELSE df.vals[i - 1]]]

\* df.diff(): row t minus row t-1, row 0 is NaN
Diff(df) ==
    [df EXCEPT !.vals = [i \in DOMAIN df.vals |->
        IF i = 1 THEN NaNRow(df.ncols)
        ELSE [j \in 1..df.ncols |-> FSub(df.vals[i][j], df.vals[i - 1][j])]]]

\* df.sum(axis=1)
SumAxis1(df) ==
    [index |-> df.index, vals |-> [i \in DOMAIN df.vals |-> SumSkipNa(df.vals[i])]]

\* df.div(s, axis=0): each row divided by the series' value at the row's label
DivAxis0(df, s) ==
    [df EXCEPT !.vals = [i \in DOMAIN df.vals |->
        [j \in 1..df.ncols |-> FDiv(df.vals[i][j], ValAt(s, df.index[i]))]]]

\* the index of a binary operation: the sorted union of the operands' labels
UnionIndex(a, b) == SortedSeq(Range(a.index) \cup Range(b.index))

\* a.multiply(b, axis=0) of two frames with the same columns: aligned on the
\* union of the two indexes, NaN where either operand has no such row
MultiplyFrames(a, b) ==
    LET idx == UnionIndex(a, b)
    IN  [index |-> idx, ncols |-> a.ncols,
         vals |-> [i \in DOMAIN idx |->
             [j \in 1..a.ncols |-> FMul(RowAt(a, idx[i])[j], RowAt(b, idx[i])[j])]]]

\* s - t of two series: aligned on the union of the two indexes
SubSeries(s, t) ==
    LET idx == UnionIndex(s, t)
    IN  [index |-> idx,
         vals |-> [i \in DOMAIN idx |-> FSub(ValAt(s, idx[i]), ValAt(t, idx[i]))]]

\* s * rate
ScaleSeries(s, rate) ==
    [s EXCEPT !.vals = [i \in DOMAIN s.vals |-> FMul(s.vals[i], rate)]]

\* (1 + x).cumprod() - 1 over a sequence of floats: skipna=True, so a NaN
\* entry yields NaN and is left out of the running product; a NaN produced
\* by the product itself (inf * 0) stays in it
RECURSIVE CumProdFrom(_, _)
CumProdFrom(xs, acc) ==
    IF xs = <<>> THEN <<>>
    ELSE LET x == FAdd(F(1), Head(xs))
         IN  IF IsNaN(x) THEN <<NaN>> \o CumProdFrom(Tail(xs), acc)
             ELSE <<FSub(FMul(acc, x), F(1))>> \o CumProdFrom(Tail(xs), FMul(acc, x))

CumReturnSeries(s) == [s EXCEPT !.vals = CumProdFrom(s.vals, F(1))]

CumReturnFrame(df) ==
    [df EXCEPT !.vals = [i \in DOMAIN df.vals |->
        [j \in 1..df.ncols |-> CumReturnSeries(Column(df, j)).vals[i]]]]

----------------------------------------------------------------------------
(* Backtester.calculate_transaction_costs / calculate_slippage_costs       *)

calculate_transaction_costs(shifted_positions, rate) ==
    ScaleSeries(SumAxis1(AbsFrame(Diff(shifted_positions))), rate)

calculate_slippage_costs(shifted_positions, rate) ==
    ScaleSeries(SumAxis1(AbsFrame(Diff(shifted_positions))), rate)

----------------------------------------------------------------------------
(* Backtester.evaluate_trade                                               *)

\* the scan of one column from row i on
RECURSIVE ScanColumn(_, _, _, _, _, _, _)
ScanColumn(shifted_positions, prices, j, i, last_position, last_trade_value, acc) ==
    IF i > Len(shifted_positions.index) THEN acc
    ELSE LET date == shifted_positions.index[i]
             current_pos == shifted_positions.vals[i][j]
             current_value == RowAt(prices, date)[j]
             win == \/ FGt(last_position, F(0)) /\ FGt(current_value, last_trade_value)
                    \/ FLt(last_position, F(0)) /\ FLt(current_value, last_trade_value)
         IN  IF ~FEq(last_position, current_pos)
             THEN ScanColumn(shifted_positions, prices, j, i + 1, current_pos,
                             current_value,
                             <<acc[1] + 1, acc[2] + (IF win THEN 1 ELSE 0)>>)
             ELSE ScanColumn(shifted_positions, prices, j, i + 1, last_position,
                             last_trade_value, acc)

\* the price last_trade_value starts from: self.data.iloc[0][asset]
FirstTradeValue(shifted_positions, prices, j) == prices.vals[1][j]

\* the counts of one column
TradesOfColumn(shifted_positions, prices, j) ==
    ScanColumn(shifted_positions, prices, j, 1, shifted_positions.vals[1][j],
               FirstTradeValue(shifted_positions, prices, j), <<0, 0>>)

RECURSIVE SumTrades(_, _, _)
SumTrades(shifted_positions, prices, j) ==
    IF j = 0 THEN <<0, 0>>
    ELSE LET rest == SumTrades(shifted_positions, prices, j - 1)
             mine == TradesOfColumn(shifted_positions, prices, j)
         IN  <<rest[1] + mine[1], rest[2] + mine[2]>>

\* shifted_positions.iloc[0] of a frame with no rows raises IndexError
EvaluateRaises(shifted_positions) ==
    shifted_positions.ncols > 0 /\ Len(shifted_positions.index) = 0

evaluate_trade(shifted_positions, prices) ==
    SumTrades(shifted_positions, prices, shifted_positions.ncols)

----------------------------------------------------------------------------
(* Backtester.calculate_returns, up to the call of evaluate_trade          *)

\* composition_matrix.shift(1).fillna(0)
ShiftedRaw(comp) == FillNaFrame(Shift1(comp))

\* mutant of Normalise: the rows are divided by their sum, not by the sum of
\* their absolute values
NormaliseBySum(shifted) == FillNaFrame(DivAxis0(shifted, SumAxis1(shifted)))

\* shifted_positions.div(shifted_positions.abs().sum(axis=1), axis=0).fillna(0)
Normalise(shifted) == FillNaFrame(DivAxis0(shifted, SumAxis1(AbsFrame(shifted))))

\* mutant of TrimFrom: the trim drops special_start rows
TrimFromOffByOne(ss) == IF ss # 1 THEN ss ELSE 0

\* mutant of TrimFrom: nothing is trimmed
TrimFromNone(ss) == 0

\* the number of leading rows the warm-up trim drops
TrimFrom(ss) == IF ss # 1 THEN ss + 1 ELSE 0

calculate_returns(prices, comp, tc, sl, ss) ==
    LET asset_returns == FillNaFrame(PctChange(prices))
        shifted == Normalise(ShiftedRaw(comp))
        transaction_costs == calculate_transaction_costs(shifted, tc)
        slippage_costs == calculate_slippage_costs(shifted, sl)
        asset_contributions == MultiplyFrames(shifted, asset_returns)
        portfolio_returns ==
            SubSeries(SubSeries(SumAxis1(asset_contributions), transaction_costs),
                      slippage_costs)
        cumulative_asset_returns == CumReturnFrame(asset_contributions)
        cumulative_returns == CumReturnSeries(portfolio_returns)
        k == TrimFrom(ss)
    IN  [shifted_positions |-> ILocFrom(shifted, k),
         asset_contributions |-> ILocFrom(asset_contributions, k),
         portfolio_returns |-> ILocFrom(portfolio_returns, k),
         cumulative_asset_returns |-> ILocFrom(cumulative_asset_returns, k),
         cumulative_returns |-> ILocFrom(cumulative_returns, k)]

----------------------------------------------------------------------------
(* The strategy collaborator: get_position(history, previous_position).    *)
(* A position is a sequence of floats: one entry is a scalar, one entry    *)
(* per column is a vector.  The history is a frame in aggregate mode and a *)
(* series in per-asset mode.                                               *)

Scalar(n) == <<F(n)>>

\* "const":  always 1
\* "short":  always -1 per asset, long the odd and short the even columns
\*           as a vector
\* "last":   the last observed price minus 1 (per column in aggregate mode)
\* "flip":   alternates on the previous position: 1 / -1 per asset,
\*           (1,0,..) / (0,1,..) as a vector
get_position(strat, aggregate, history, previous_position) ==
    LET n == Len(history.vals)
    IN  CASE strat = "const" -> Scalar(1)
          [] strat = "short" ->
                IF aggregate
                THEN [j \in 1..history.ncols |-> IF j % 2 = 1 THEN F(1) ELSE F(-1)]
                ELSE Scalar(-1)
          [] strat = "last" ->
                IF aggregate
                THEN [j \in 1..history.ncols |-> FSub(history.vals[n][j], F(1))]
                ELSE <<FSub(history.vals[n], F(1))>>
          [] strat = "flip" ->
                IF aggregate
                THEN LET e1 == [j \in 1..history.ncols |-> IF j = 1 THEN F(1) ELSE F(0)]
                         e2 == [j \in 1..history.ncols |-> IF j = 1 THEN F(0) ELSE F(1)]
                     IN  IF previous_position = e1 THEN e2 ELSE e1
                ELSE IF previous_position = Scalar(1) THEN Scalar(-1) ELSE Scalar(1)

----------------------------------------------------------------------------
(* Backtester.__init__ and run                                             *)

EmptySeries == [index |-> <<>>, vals |-> <<>>]
EmptyFrame(A) == [index |-> <<>>, ncols |-> A, vals |-> <<>>]

NoOut ==
    [shifted_positions |-> EmptyFrame(0), asset_contributions |-> EmptyFrame(0),
     portfolio_returns |-> EmptySeries, cumulative_asset_returns |-> EmptyFrame(0),
     cumulative_returns |-> EmptySeries]

NoResult ==
    [portfolio_returns |-> EmptySeries, cumulative_returns |-> EmptySeries,
     risk_free_rate |-> F(0), trade_stats |-> <<0, 0>>]

\* the state of a Backtester about to be constructed on the given arguments
Fresh ==
    /\ pc = "new"
    /\ trading_dates = <<>>
    /\ composition_matrix = EmptyFrame(0)
    /\ date_index = 0
    /\ asset = 0
    /\ current_position = Scalar(0)
    /\ calls = <<>>
    /\ out = NoOut
    /\ result_trade = <<0, 0>>
    /\ result = NoResult
    /\ error = "none"

\* __init__: self.data.index[0] raises IndexError on a table with no rows
Construct ==
    /\ pc = "new"
    /\ IF Len(data.index) = 0
       THEN pc' = "error" /\ error' = "IndexError in __init__"
       ELSE pc' = "constructed" /\ error' = error
    /\ UNCHANGED <<inputs, trading_dates, composition_matrix, date_index, asset,
                   current_position, calls, out, result_trade, result>>

\* pd.to_datetime(self.calendar.all_dates).intersection(self.data.index)
TradingDates(calendar_dates, prices) ==
    SortedSeq(calendar_dates \cap Range(prices.index))

\* pd.DataFrame(index=trading_dates, columns=assets, dtype="float64")
NewComposition(dates, A) ==
    [index |-> dates, ncols |-> A, vals |-> [i \in DOMAIN dates |-> NaNRow(A)]]

\* run() enters calculate_composition_matrix: lines 65-76 and 86-88
BeginComposition ==
    /\ pc = "constructed"
    /\ pc' = "build"
    /\ trading_dates' = TradingDates(all_dates, data)
    /\ composition_matrix' = NewComposition(TradingDates(all_dates, data), data.ncols)
    /\ current_position' = Scalar(0)
    /\ date_index' = special_start
    /\ asset' = IF multi_assets THEN 0 ELSE 1
    /\ UNCHANGED <<inputs, calls, out, result_trade, result, error>>

\* mutant of HistoryFor: the slice runs one date too far
HistoryForLookahead(prices, current_date) == LocUpTo(prices, current_date + 1)

\* the slice handed to the strategy: self.data.loc[:current_date]
HistoryFor(prices, current_date) == LocUpTo(prices, current_date)

\* mutant of IsRebalancing: the strategy is consulted at every date
IsRebalancingAlways(current_date, rebalancing) == TRUE

\* whether the loop body consults the strategy at this date
IsRebalancing(current_date, rebalancing) == current_date \in rebalancing

\* the row a position is written as: a scalar is broadcast to every column
AsRow(position, A) ==
    IF Len(position) = 1 THEN [j \in 1..A |-> position[1]] ELSE position

\* one iteration of the aggregate loop, lines 77-84
BuildAggregate ==
    /\ pc = "build" /\ multi_assets
    /\ date_index < Len(trading_dates)
    /\ LET current_date == trading_dates[date_index + 1]
           current_df == HistoryFor(data, current_date)
           called == IsRebalancing(current_date, rebalancing_dates)
           position == IF called
                       THEN get_position(strategy, TRUE, current_df, current_position)
                       ELSE current_position
       IN  /\ calls' = IF called
                       THEN Append(calls, [date |-> current_date, col |-> 0,
                                           history |-> current_df,
                                           previous |-> current_position,
                                           returned |-> position])
                       ELSE calls
           /\ current_position' = position
           /\ composition_matrix' =
                  [composition_matrix EXCEPT !.vals[date_index + 1] =
                                                 AsRow(position, data.ncols)]
    /\ date_index' = date_index + 1
    /\ UNCHANGED <<inputs, pc, trading_dates, asset, out, result_trade, result, error>>

\* one iteration of the inner per-asset loop, lines 90-98; leaving the inner
\* loop moves to the next asset and resets its accumulator, lines 87-88
BuildPerAsset ==
    /\ pc = "build" /\ ~multi_assets
    /\ asset <= data.ncols
    /\ date_index < Len(trading_dates)
    /\ LET current_date == trading_dates[date_index + 1]
           current_df == Column(HistoryFor(data, current_date), asset)
           called == IsRebalancing(current_date, rebalancing_dates)
           position == IF called
                       THEN get_position(strategy, FALSE, current_df, current_position)
                       ELSE current_position
           last == date_index + 1 >= Len(trading_dates)
       IN  /\ calls' = IF called
                       THEN Append(calls, [date |-> current_date, col |-> asset,
                                           history |-> current_df,
                                           previous |-> current_position,
                                           returned |-> position])
                       ELSE calls
           /\ composition_matrix' =
                  [composition_matrix EXCEPT !.vals[date_index + 1][asset] = position[1]]
           /\ current_position' = IF last THEN Scalar(0) ELSE position
           /\ date_index' = IF last THEN special_start ELSE date_index + 1
           /\ asset' = IF last THEN asset + 1 ELSE asset
    /\ UNCHANGED <<inputs, pc, trading_dates, out, result_trade, result, error>>

\* both loops are exhausted: return composition_matrix, line 100
EndComposition ==
    /\ pc = "build"
    /\ IF multi_assets
       THEN date_index >= Len(trading_dates)
       ELSE asset > data.ncols \/ special_start >= Len(trading_dates)
    /\ pc' = "returns"
    /\ UNCHANGED <<inputs, trading_dates, composition_matrix, date_index, asset,
                   current_position, calls, out, result_trade, result, error>>

\* calculate_returns, lines 155-182
CalculateReturns ==
    /\ pc = "returns"
    /\ out' = calculate_returns(data, composition_matrix, transaction_cost, slippage,
                                special_start)
    /\ pc' = "evaluate"
    /\ UNCHANGED <<inputs, trading_dates, composition_matrix, date_index, asset,
                   current_position, calls, result_trade, result, error>>

\* calculate_returns, line 184: evaluate_trade on the trimmed positions
EvaluateTrade ==
    /\ pc = "evaluate"
    /\ IF EvaluateRaises(out.shifted_positions)
       THEN /\ pc' = "error"
            /\ error' = "IndexError in evaluate_trade"
            /\ result_trade' = result_trade
       ELSE /\ pc' = "result"
            /\ error' = error
            /\ result_trade' = evaluate_trade(out.shifted_positions, data)
    /\ UNCHANGED <<inputs, trading_dates, composition_matrix, date_index, asset,
                   current_position, calls, out, result>>

\* run(), lines 50-56: the Result is built and returned
ReturnResult ==
    /\ pc = "result"
    /\ result' = [portfolio_returns |-> out.portfolio_returns,
                  cumulative_returns |-> out.cumulative_returns,
                  risk_free_rate |-> F(0),
                  trade_stats |-> result_trade]
    /\ pc' = "done"
    /\ UNCHANGED <<inputs, trading_dates, composition_matrix, date_index, asset,
                   current_position, calls, out, result_trade, error>>

----------------------------------------------------------------------------
(* calculate_composition_matrix as a function of its inputs: the loops of  *)
(* BuildAggregate and BuildPerAsset run to their end.                      *)

\* the aggregate loop from 0-based position i on
RECURSIVE AggregateLoop(_, _, _, _, _, _, _)
AggregateLoop(prices, dates, rebalancing, strat, i, position, comp) ==
    IF i >= Len(dates) THEN comp
    ELSE LET current_date == dates[i + 1]
             new_position ==
                 IF IsRebalancing(current_date, rebalancing)
                 THEN get_position(strat, TRUE, HistoryFor(prices, current_date),
                                   position)
                 ELSE position
         IN  AggregateLoop(prices, dates, rebalancing, strat, i + 1, new_position,
                           [comp EXCEPT !.vals[i + 1] = AsRow(new_position, prices.ncols)])

\* the inner per-asset loop of column j from 0-based position i on
RECURSIVE ColumnLoop(_, _, _, _, _, _, _, _)
ColumnLoop(prices, dates, rebalancing, strat, j, i, position, comp) ==
    IF i >= Len(dates) THEN comp
    ELSE LET current_date == dates[i + 1]
             new_position ==
                 IF IsRebalancing(current_date, rebalancing)
                 THEN get_position(strat, FALSE,
                                   Column(HistoryFor(prices, current_date), j), position)
                 ELSE position
         IN  ColumnLoop(prices, dates, rebalancing, strat, j, i + 1, new_position,
                        [comp EXCEPT !.vals[i + 1][j] = new_position[1]])

\* the outer per-asset loop from column j on
RECURSIVE AssetLoop(_, _, _, _, _, _, _)
AssetLoop(prices, dates, rebalancing, strat, ss, j, comp) ==
    IF j > prices.ncols THEN comp
    ELSE AssetLoop(prices, dates, rebalancing, strat, ss, j + 1,
                   ColumnLoop(prices, dates, rebalancing, strat, j, ss, Scalar(0), comp))

calculate_composition_matrix(prices, calendar_dates, rebalancing, ss, aggregate, strat) ==
    LET dates == TradingDates(calendar_dates, prices)
        empty == NewComposition(dates, prices.ncols)
    IN  IF aggregate
        THEN AggregateLoop(prices, dates, rebalancing, strat, ss, Scalar(0), empty)
        ELSE AssetLoop(prices, dates, rebalancing, strat, ss, 1, empty)

----------------------------------------------------------------------------
(* The checked instances.                                                  *)

\* prices a generated table draws from; the second and later columns draw
\* from fewer values
ColumnPrices(j) == IF j = 1 THEN {F(0), F(1), F(2)} ELSE {F(0), F(1)}

IndexOf(N) == [i \in 1..N |-> i]

\* every table of N rows and A columns over ColumnPrices
Tables(N, A) ==
    LET rows == {r \in [1..A -> {F(0), F(1), F(2)}] :
                    \A j \in 1..A : r[j] \in ColumnPrices(j)}
    IN  {[index |-> IndexOf(N), ncols |-> A, vals |-> v] : v \in [1..N -> rows]}

\* one table of N rows and A columns with positive, moving prices
SampleTable(N, A) ==
    [index |-> IndexOf(N), ncols |-> A,
     vals |-> [i \in 1..N |-> [j \in 1..A |-> F(1 + ((i + j) % 3))]]]

Rates == {<<F(0), F(0)>>, <<Norm(1, 4), Norm(1, 8)>>}

\* every price table, daily rebalancing on a calendar that holds every date
InitPrices ==
    /\ \E N \in 0..MaxRows : data \in Tables(N, 2)
    /\ all_dates = Range(data.index)
    /\ rebalancing_dates = Range(data.index)
    /\ special_start \in 0..2
    /\ \E m \in {<<TRUE, "last">>, <<FALSE, "last">>, <<TRUE, "short">>} :
           multi_assets = m[1] /\ strategy = m[2]
    /\ \E r \in Rates : transaction_cost = r[1] /\ slippage = r[2]
    /\ Fresh

\* every calendar and rebalancing schedule on one table
InitSchedules ==
    /\ \E N \in 1..MaxRows : \E A \in 1..2 : data = SampleTable(N, A)
    /\ all_dates \in SUBSET Range(data.index)
    /\ rebalancing_dates \in SUBSET Range(data.index)
    /\ special_start \in 0..(Len(data.index) + 1)
    /\ multi_assets \in BOOLEAN
    /\ transaction_cost = F(0) /\ slippage = F(0)
    /\ strategy \in {"const", "last", "flip"}
    /\ Fresh

\* Scenario 1 of the specification: one asset, prices 100, 110, 99, 99, 120,
\* the first date the only rebalancing date, zero costs
Scenario1Table ==
    [index |-> IndexOf(5), ncols |-> 1,
     vals |-> <<<<F(100)>>, <<F(110)>>, <<F(99)>>, <<F(99)>>, <<F(120)>>>>]

InitScenario1 ==
    /\ data = Scenario1Table
    /\ all_dates = Range(data.index)
    /\ rebalancing_dates = {1}
    /\ special_start \in 0..6
    /\ multi_assets \in BOOLEAN
    /\ transaction_cost = F(0) /\ slippage = F(0)
    /\ strategy = "const"
    /\ Fresh

Init == InitPrices \/ InitSchedules \/ InitScenario1

Next ==
    \/ Construct
    \/ BeginComposition
    \/ BuildAggregate
    \/ BuildPerAsset
    \/ EndComposition
    \/ CalculateReturns
    \/ EvaluateTrade
    \/ ReturnResult

Spec == Init /\ [][Next]_vars

----------------------------------------------------------------------------
(* Helpers of the properties.                                              *)

Max(S) == CHOOSE x \in S : \A y \in S : x >= y

NumRows == Len(data.index)
NumCols == data.ncols
NumTrading == Len(trading_dates)

ZeroRow(A) == [j \in 1..A |-> F(0)]

\* the plain sum of a row of floats
RECURSIVE SumRow(_)
SumRow(row) == IF row = <<>> THEN F(0) ELSE FAdd(Head(row), SumRow(Tail(row)))

AbsRow(row) == [j \in DOMAIN row |-> FAbs(row[j])]

\* the composition is complete and calculate_returns has not run yet
Built == pc = "returns"

\* calculate_returns has run and is about to call evaluate_trade
Computed == pc = "evaluate"

\* the calendar holds every date of the table
Aligned == Range(data.index) \subseteq all_dates

----------------------------------------------------------------------------
(* C1: no lookahead.                                                       *)

\* the prices an altered row is made of
AltValues == {F(0), F(2)}

\* price tables that agree with prices on every row dated up to cutoff and
\* differ only later: the first later row, or every later row, replaced
Alternatives(prices, cutoff) ==
    LET later == {i \in DOMAIN prices.index : prices.index[i] > cutoff}
        rows == [1..prices.ncols -> AltValues]
        first == IF later = {} THEN {} ELSE {Min(later)}
    IN  {[prices EXCEPT !.vals = [i \in DOMAIN prices.vals |->
              IF i \in S THEN r ELSE prices.vals[i]]] :
            <<S, r>> \in {first, later} \X rows}

\* the shifted positions, before normalisation, of a run on another table
ShiftedOn(prices) ==
    ShiftedRaw(calculate_composition_matrix(prices, all_dates, rebalancing_dates,
                                            special_start, multi_assets, strategy))

\* C1: the position applied at date index t > 0, before normalisation, is the
\* composition row decided at t-1 (0 where that row is undefined), row 0 is 0
\* for every asset, and a run of the same strategy and schedule on a price
\* table that differs only after the date of index t-1 applies the same
\* position at t.
C1_NoLookahead ==
    Built =>
        LET shifted == ShiftedRaw(composition_matrix)
        IN  /\ shifted.index = trading_dates
            /\ \A t \in DOMAIN trading_dates :
                /\ shifted.vals[t] =
                       IF t = 1 THEN ZeroRow(NumCols)
                       ELSE [j \in 1..NumCols |->
                                FillNa(composition_matrix.vals[t - 1][j])]
                /\ \A other \in Alternatives(data,
                                     IF t = 1 THEN 0 ELSE trading_dates[t - 1]) :
                       ShiftedOn(other).vals[t] = shifted.vals[t]

\* C1 witness: a run whose applied position at the last date is not 0, and a
\* table differing only at that last date on which the composition differs
C1_Witness ==
    /\ Built
    /\ NumTrading >= 2
    /\ ShiftedRaw(composition_matrix).vals[NumTrading] # ZeroRow(NumCols)
    /\ \E other \in Alternatives(data, trading_dates[NumTrading - 1]) :
           calculate_composition_matrix(other, all_dates, rebalancing_dates,
                                        special_start, multi_assets, strategy)
               # composition_matrix

----------------------------------------------------------------------------
(* C2: normalisation.                                                      *)

----------------------------------------------------------------------------
(* C3: strategy call protocol and carry-forward.                           *)

\* the dates at which the loop consults the strategy
CallDates ==
    {d \in Range(trading_dates) :
        Pos(trading_dates, d) - 1 >= special_start /\ d \in rebalancing_dates}

\* the accumulators: one (0) in aggregate mode, one per column otherwise
Accumulators == IF multi_assets THEN {0} ELSE 1..NumCols

\* the rows of the table dated up to and including d, as the mode hands them
ExpectedHistory(d, acc) ==
    LET n == Cardinality({i \in DOMAIN data.index : data.index[i] <= d})
    IN  IF acc = 0
        THEN [index |-> [i \in 1..n |-> data.index[i]], ncols |-> NumCols,
              vals |-> [i \in 1..n |-> data.vals[i]]]
        ELSE [index |-> [i \in 1..n |-> data.index[i]],
              vals |-> [i \in 1..n |-> data.vals[i][acc]]]

\* the result of the most recent call of accumulator acc at or before date d
HeldAt(d, acc) ==
    LET before == {k \in DOMAIN calls : calls[k].col = acc /\ calls[k].date <= d}
    IN  IF before = {} THEN Scalar(0) ELSE calls[Max(before)].returned

\* C3: get_position is called only at trading dates of index >= special_start
\* that are rebalancing dates, once per accumulator; each call gets exactly the
\* rows dated up to and including its date and the result of the preceding call
\* of its accumulator (0 for the first); after the loops every row of index
\* >= special_start holds the result of the most recent call (0 if none) and
\* the rows before it are unwritten.
C3_CallProtocol ==
    /\ \A k \in DOMAIN calls :
        LET c == calls[k]
            prior == {m \in 1..(k - 1) : calls[m].col = c.col}
        IN  /\ c.date \in CallDates
            /\ c.col \in Accumulators
            /\ c.history = ExpectedHistory(c.date, c.col)
            /\ c.previous = IF prior = {} THEN Scalar(0)
                            ELSE calls[Max(prior)].returned
            /\ \A m \in prior : calls[m].date < c.date
    /\ (pc \notin {"new", "constructed", "build"} /\ error # "IndexError in __init__") =>
        /\ \A d \in CallDates : \A acc \in Accumulators :
               \E k \in DOMAIN calls : calls[k].date = d /\ calls[k].col = acc
        /\ \A i \in DOMAIN trading_dates : \A j \in 1..NumCols :
               composition_matrix.vals[i][j] =
                   IF i - 1 < special_start THEN NaN
                   ELSE AsRow(HeldAt(trading_dates[i], IF multi_assets THEN 0 ELSE j),
                              NumCols)[j]

\* C3 witness: a finished composition with two calls of one accumulator and a
\* non-rebalancing date after the first of them, whose row carries its result
C3_Witness ==
    /\ Built
    /\ \E k, m \in DOMAIN calls :
           /\ k < m /\ calls[k].col = calls[m].col
           /\ calls[m].previous # Scalar(0)
           /\ \E i \in DOMAIN trading_dates :
                  /\ i - 1 >= special_start
                  /\ trading_dates[i] \notin rebalancing_dates
                  /\ calls[k].date < trading_dates[i]
                  /\ trading_dates[i] < calls[m].date

----------------------------------------------------------------------------
(* C4: warm-up trim.                                                       *)

\* the number of rows the claim says are removed
Removed == IF special_start # 1 THEN special_start + 1 ELSE 0

\* the series of calculate_returns had nothing been trimmed
Untrimmed ==
    calculate_returns(data, composition_matrix, transaction_cost, slippage, 1)

\* obj is what is left of full once its first k rows are removed
IsTailOf(obj, full, k) ==
    /\ Len(obj.index) = (IF Len(full.index) > k THEN Len(full.index) - k ELSE 0)
    /\ Len(obj.vals) = Len(obj.index)
    /\ \A i \in DOMAIN obj.index :
           obj.index[i] = full.index[i + k] /\ obj.vals[i] = full.vals[i + k]

----------------------------------------------------------------------------
(* C5: input-shape errors.                                                 *)

BadShape ==
    \/ NumRows = 0
    \/ special_start > Cardinality(all_dates \cap Range(data.index))

\* C5: on an empty table, or with special_start above the number of trading
\* dates, the call ends in an error raised before composition building
\* begins: no composition matrix exists, no get_position call was made, and
\* no Result is returned.
C5_ShapeErrorFirst ==
    BadShape =>
        \/ pc \in {"new", "constructed"}
        \/ /\ pc = "error"
           /\ composition_matrix = EmptyFrame(0)
           /\ calls = <<>>

\* C5, its last part alone: no Result is returned on such an input
C5_NoResult == BadShape => pc # "done"

----------------------------------------------------------------------------
(* C6: defined and aligned outputs.                                        *)

NoNaNSeries(s) == \A i \in DOMAIN s.vals : ~IsNaN(s.vals[i])
NoNaNFrame(df) == \A i \in DOMAIN df.vals : \A j \in 1..df.ncols : ~IsNaN(df.vals[i][j])

\* C6: the four returned series share one date index and none of their
\* cells is undefined.
C6_DefinedAligned ==
    Computed =>
        /\ out.asset_contributions.index = out.portfolio_returns.index
        /\ out.cumulative_asset_returns.index = out.portfolio_returns.index
        /\ out.cumulative_returns.index = out.portfolio_returns.index
        /\ NoNaNFrame(out.asset_contributions)
        /\ NoNaNSeries(out.portfolio_returns)
        /\ NoNaNFrame(out.cumulative_asset_returns)
        /\ NoNaNSeries(out.cumulative_returns)

\* C6, its first part alone: the four series share one date index
C6_SharedIndex ==
    Computed =>
        /\ out.asset_contributions.index = out.portfolio_returns.index
        /\ out.cumulative_asset_returns.index = out.portfolio_returns.index
        /\ out.cumulative_returns.index = out.portfolio_returns.index

----------------------------------------------------------------------------
(* C7: scenario 1.                                                         *)

Scenario1 ==
    /\ data = Scenario1Table
    /\ all_dates = Range(data.index)
    /\ rebalancing_dates = {1}
    /\ strategy = "const"
    /\ transaction_cost = F(0) /\ slippage = F(0)

\* the raw percentage change of column j at date d of the table
PctAt(d, j) ==
    IF Pos(data.index, d) <= 1 THEN F(0)
    ELSE FSub(FDiv(data.vals[Pos(data.index, d)][j],
                   data.vals[Pos(data.index, d) - 1][j]), F(1))

\* C7 as claimed: in scenario 1 the run reports one trade, the entry, and at
\* every returned date the portfolio return is the asset's percentage change.
C7_Scenario1AsClaimed ==
    (Scenario1 /\ pc = "done") =>
        /\ result.trade_stats[1] = 1
        /\ \A i \in DOMAIN result.portfolio_returns.index :
               result.portfolio_returns.vals[i] =
                   PctAt(result.portfolio_returns.index[i], 1)

\* C7 amended: in scenario 1 a run that returns reports no trade and no win.
\* With special_start = 0 the strategy is called once, at the first date, and
\* the returned portfolio returns are the asset's percentage changes of dates
\* 2 to 5 (1/10, -1/10, 0, 7/33); with special_start from 1 to 3 the first
\* date lies before the loop, the strategy is never called and every return
\* is 0; with special_start >= 4 no row is left to scan and no Result is
\* returned.
C7_Scenario1 ==
    Scenario1 =>
        /\ pc = "done" =>
               /\ result.trade_stats = <<0, 0>>
               /\ special_start = 0 =>
                      /\ Len(calls) = (IF multi_assets THEN 1 ELSE NumCols)
                      /\ result.portfolio_returns.index = <<2, 3, 4, 5>>
                      /\ result.portfolio_returns.vals =
                             <<Norm(1, 10), Norm(-1, 10), F(0), Norm(7, 33)>>
                      /\ \A i \in 1..4 :
                             result.portfolio_returns.vals[i] = PctAt(i + 1, 1)
               /\ special_start >= 1 =>
                      /\ calls = <<>>
                      /\ \A i \in DOMAIN result.portfolio_returns.vals :
                             result.portfolio_returns.vals[i] = F(0)
        /\ special_start >= 4 => pc # "done"
        /\ (special_start <= 3 /\ pc = "evaluate") => ~EvaluateRaises(out.shifted_positions)

\* C7 witness: scenario 1 run to its end from special_start = 0, the
\* strategy called at the first date and position 1 held on every scanned row
C7_Witness ==
    /\ Scenario1 /\ pc = "done"
    /\ special_start = 0
    /\ Len(calls) = 1
    /\ \A i \in DOMAIN out.shifted_positions.vals :
           out.shifted_positions.vals[i] = <<F(1)>>
    /\ Len(out.shifted_positions.vals) = 4

----------------------------------------------------------------------------
(* C8: scenario 4.                                                         *)

\* the weight buy-and-hold has in every column at date d: 1 / NumCols once
\* the position returned by the first call applies, 0 before
HeldWeight(d) ==
    IF calls # <<>> /\ d > calls[1].date THEN Norm(1, NumCols) ELSE F(0)

\* the compounded return of buy-and-hold over the returned rows up to the i-th
RECURSIVE BuyAndHold(_)
BuyAndHold(i) ==
    IF i = 0 THEN F(0)
    ELSE LET d == result.cumulative_returns.index[i]
             r == SumRow([j \in 1..NumCols |-> FMul(HeldWeight(d), PctAt(d, j))])
         IN  FSub(FMul(FAdd(F(1), BuyAndHold(i - 1)), FAdd(F(1), r)), F(1))

\* C8: with a strategy that returns the same position at every rebalancing
\* date the run reports no trade and no win, whatever special_start and the
\* mode.
C8_NoTrades == (strategy = "const" /\ pc = "done") => result.trade_stats = <<0, 0>>

\* C8, its second part: on a calendar that holds every table date the
\* cumulative returns of such a run are the buy-and-hold compounded returns
\* of the held weights
C8_BuyAndHold ==
    (strategy = "const" /\ pc = "done" /\ Aligned) =>
        \A i \in DOMAIN result.cumulative_returns.index :
            result.cumulative_returns.vals[i] = BuyAndHold(i)

\* C8, the win count alone: such a run never reports a win
C8_NoWins == (strategy = "const" /\ pc = "done") => result.trade_stats[2] = 0

----------------------------------------------------------------------------
(* C9: trade evaluation.                                                   *)

\* the scan as claimed, of column j from row i on
RECURSIVE ClaimedScan(_, _, _, _, _)
ClaimedScan(j, i, lastPosition, lastTradeValue, acc) ==
    IF i > Len(out.shifted_positions.index) THEN acc
    ELSE LET position == out.shifted_positions.vals[i][j]
             price == RowAt(data, out.shifted_positions.index[i])[j]
             win == \/ FGt(lastPosition, F(0)) /\ FGt(price, lastTradeValue)
                    \/ FLt(lastPosition, F(0)) /\ FLt(price, lastTradeValue)
         IN  IF position # lastPosition
             THEN ClaimedScan(j, i + 1, position, price,
                              <<acc[1] + 1, acc[2] + (IF win THEN 1 ELSE 0)>>)
             ELSE ClaimedScan(j, i + 1, lastPosition, lastTradeValue, acc)

\* lastPosition and lastTradeValue both start at the first scanned row
RECURSIVE ClaimedTrades(_)
ClaimedTrades(j) ==
    IF j = 0 THEN <<0, 0>>
    ELSE LET rest == ClaimedTrades(j - 1)
             mine == ClaimedScan(j, 1, out.shifted_positions.vals[1][j],
                                 RowAt(data, out.shifted_positions.index[1])[j],
                                 <<0, 0>>)
         IN  <<rest[1] + mine[1], rest[2] + mine[2]>>

\* C9: the pair evaluate_trade returns is the sum over the assets of the
\* claimed scan, whose lastTradeValue starts at the asset's price in the first
\* row of the scanned matrix, and winTradeCount <= tradeCount.
C9_TradeScan ==
    pc \in {"result", "done"} =>
        /\ result_trade = ClaimedTrades(NumCols)
        /\ result_trade[2] <= result_trade[1]

\* C9, without its starting price: trades are counted as claimed
C9_TradeCount ==
    pc \in {"result", "done"} =>
        /\ result_trade[1] = ClaimedTrades(NumCols)[1]
        /\ result_trade[2] <= result_trade[1]

----------------------------------------------------------------------------
(* C10: compounding from a fresh start.                                    *)

\* C10: when the calendar holds every table date and special_start < N, rows
\* 0..special_start of the shifted positions are zero and carry no cost and
\* no portfolio return, and on the returned series the first cumulative
\* return is the first portfolio return and each later one compounds the
\* one before it.
C10_FreshCompounding ==
    (Computed /\ Aligned /\ special_start < NumRows) =>
        LET full == Untrimmed
            costs == calculate_transaction_costs(full.shifted_positions, transaction_cost)
            slips == calculate_slippage_costs(full.shifted_positions, slippage)
            pr == out.portfolio_returns.vals
            cum == out.cumulative_returns.vals
        IN  /\ \A i \in 1..(special_start + 1) :
                /\ full.shifted_positions.vals[i] = ZeroRow(NumCols)
                /\ costs.vals[i] = F(0) /\ slips.vals[i] = F(0)
                /\ full.portfolio_returns.vals[i] = F(0)
            /\ \A i \in DOMAIN cum :
                   cum[i] = IF i = 1 THEN pr[1]
                            ELSE FSub(FMul(FAdd(F(1), cum[i - 1]), FAdd(F(1), pr[i])),
                                      F(1))

\* every price of the table is positive
PositivePrices ==
    \A i \in DOMAIN data.vals : \A j \in 1..NumCols : FGt(data.vals[i][j], F(0))

\* C10 on tables without a zero price
C10_PositivePrices == PositivePrices => C10_FreshCompounding

\* C6 on tables without a zero price and calendars that hold every date
C6_PositiveAligned == (PositivePrices /\ Aligned) => C6_DefinedAligned

====
